---------------------------- MODULE Spec2Model ----------------------------
(***************************************************************************)
(* Relocation value computation and instruction patching of the 32-bit ARM *)
(* and Thumb relocation types of cle (cle/backends/elf/relocation/arm.py), *)
(* the instruction patching of the AArch64 relocation types (arm64.py) and *)
(* the registration of the PE base-relocation directory (pe/pe.py).        *)
(*                                                                         *)
(* Python integers are unbounded and the code works on 32-bit words, which *)
(* do not fit TLC's 32-bit signed integers.  An integer n is therefore     *)
(* kept as the pair <<h, l>> with n = h * 2^16 + l and 0 <= l < 2^16; h is *)
(* any integer, negative for a negative n (two's complement, as Python's   *)
(* bitwise operators see it).                                              *)
(***************************************************************************)
EXTENDS Integers, Sequences, FiniteSets, TLC

----------------------------------------------------------------------------
(* Python integer arithmetic on <<h, l>> pairs *)

Base == 2^16

W(h, l) == <<h, l>>

Norm(h, l) == <<h + (l \div Base), l % Base>>

Zero == W(0, 0)

One == W(0, 1)

\* a + b
Add(a, b) == Norm(a[1] + b[1], a[2] + b[2])

\* a - b
Sub(a, b) == Norm(a[1] - b[1], a[2] - b[2])

\* -a
Neg(a) == Sub(Zero, a)

\* a < b
Less(a, b) == a[1] < b[1] \/ (a[1] = b[1] /\ a[2] < b[2])

\* x & y on TLC integers of either sign (infinite two's complement)
RECURSIVE BitAnd(_, _)
BitAnd(x, y) ==
  IF x = 0 \/ y = 0 THEN 0
  ELSE IF x = -1 THEN y
  ELSE IF y = -1 THEN x
  ELSE 2 * BitAnd(x \div 2, y \div 2) + (x % 2) * (y % 2)

\* a & b
And(a, b) == W(BitAnd(a[1], b[1]), BitAnd(a[2], b[2]))

\* a | b
Or(a, b) == W(a[1] + b[1] - BitAnd(a[1], b[1]), a[2] + b[2] - BitAnd(a[2], b[2]))

\* a ^ b
Xor(a, b) == W(a[1] + b[1] - 2 * BitAnd(a[1], b[1]),
               a[2] + b[2] - 2 * BitAnd(a[2], b[2]))

\* ~a
Not(a) == W(-a[1] - 1, Base - 1 - a[2])

\* a << k
RECURSIVE Shl(_, _)
Shl(a, k) ==
  IF k >= 16 THEN Shl(W(a[1] * Base + a[2], 0), k - 16)
  ELSE Norm(a[1] * 2^k, a[2] * 2^k)

\* a >> k (arithmetic: rounds toward minus infinity, as Python does)
RECURSIVE Shr(_, _)
Shr(a, k) ==
  IF k >= 16 THEN Shr(W(a[1] \div Base, a[1] % Base), k - 16)
  ELSE W(a[1] \div 2^k, (a[1] % 2^k) * 2^(16 - k) + (a[2] \div 2^k))

\* bool(a) as 0/1
Bool(a) == IF a = Zero THEN 0 ELSE 1

\* an int 0/1 (a Python bool used as an integer) as a pair
B2W(b) == W(0, b)

----------------------------------------------------------------------------
(* The backing image: the owner's memory around the relocated location.    *)
(* Bytes are integers 0..255; the record's 4 bytes start at relative_addr. *)

\* memory.load(addr, 4): the 4 bytes at addr, as a sequence
load(m, addr) == [i \in 1..4 |-> m[addr + i - 1]]

\* memory.unpack_word(addr, size=4): the unsigned little-endian word at addr
unpack_word(m, addr) == W(m[addr + 3] * 256 + m[addr + 2], m[addr + 1] * 256 + m[addr])

\* memory.pack_word(addr, v, size=4): m with the little-endian bytes of v at addr
pack_word(m, addr, v) ==
  [a \in DOMAIN m |->
     IF a = addr THEN v[2] % 256
     ELSE IF a = addr + 1 THEN v[2] \div 256
     ELSE IF a = addr + 2 THEN v[1] % 256
     ELSE IF a = addr + 3 THEN (v[1] \div 256) % 256
     ELSE m[a]]

----------------------------------------------------------------------------
(* arm.py: helpers *)

\* _applyReloc(inst, result, mask): the ValueError raised when result does
\* not fit mask is caught inside the function, logged, and 0 is returned.
_applyReloc(inst, result, mask) ==
  IF And(result, Not(mask)) # Zero
    THEN Zero
    ELSE Or(And(inst, Not(mask)), And(result, mask))

\* variant of _isThumbFunc that looks at the address alone
_isThumbFunc_odd_only(is_function, addr) ==
  IF addr[2] % 2 = 1 THEN 1 ELSE 0

\* _isThumbFunc(symbol, addr), as the 0/1 the callers OR into the value
_isThumbFunc(is_function, addr) ==
  IF addr[2] % 2 = 1 /\ is_function THEN 1 ELSE 0

\* gen_mask(n_bits, first_bit) of R_ARM_THM_CALL.value
gen_mask(n_bits, first_bit) == Shl(Sub(Shl(One, n_bits), One), first_bit)

\* the two little-endian half-words of a Thumb-2 instruction, first one high:
\*   hi = (b[1] << 8) | b[0]; lo = (b[3] << 8) | b[2]; inst = (hi << 16) | lo
thumb_inst(b) ==
  LET hi == Or(Shl(W(0, b[2]), 8), W(0, b[1]))
      lo == Or(Shl(W(0, b[4]), 8), W(0, b[3]))
  IN Or(Shl(hi, 16), lo)

\* variant of the result with the low half-word placed first
thumb_result_lo_first(inst) ==
  LET raw0 == And(inst, W(\h0000, \h00FF))
      raw1 == Shr(And(inst, W(\h0000, \hFF00)), 8)
      raw2 == Shr(And(inst, W(\h00FF, \h0000)), 16)
      raw3 == Shr(And(inst, W(\hFF00, \h0000)), 24)
  IN Or(Or(Or(Shl(raw3, 24), Shl(raw2, 16)), Shl(raw1, 8)), raw0)

\* raw = (inst[23:16], inst[31:24], inst[7:0], inst[15:8]);
\* result = (raw[3] << 24) | (raw[2] << 16) | (raw[1] << 8) | raw[0]
thumb_result(inst) ==
  LET raw0 == Shr(And(inst, W(\h00FF, \h0000)), 16)
      raw1 == Shr(And(inst, W(\hFF00, \h0000)), 24)
      raw2 == And(inst, W(\h0000, \h00FF))
      raw3 == Shr(And(inst, W(\h0000, \hFF00)), 8)
  IN Or(Or(Or(Shl(raw3, 24), Shl(raw2, 16)), Shl(raw1, 8)), raw0)

----------------------------------------------------------------------------
(* arm.py: the value property of each relocation class.  P is rebased_addr, *)
(* S is resolvedby.rebased_addr, is_function is symbol.is_function.         *)

\* variant of R_ARM_CALL.value whose immediate is not shifted down to words
R_ARM_CALL_value_noshift(P, addend, S, is_function) ==
  LET inst == addend
      T == _isThumbFunc(is_function, S)
      A == IF And(inst, W(\h0080, \h0000)) # Zero
             THEN Or(inst, W(\hFF00, \h0000))
             ELSE inst
      result == Sub(Or(Add(S, Shl(A, 2)), B2W(T)), P)
      imm24 == And(result, W(\h00FF, \hFFFF))
      bit_h == Shr(And(result, W(\h0000, \h0002)), 1)
  IN IF T = 1
       THEN _applyReloc(inst, Or(W(\h0000, \h00FA), bit_h), W(\hFF00, \h0000))
       ELSE _applyReloc(inst, imm24, W(\h00FF, \hFFFF))

R_ARM_CALL_value(P, addend, S, is_function) ==
  LET inst == addend
      T == _isThumbFunc(is_function, S)
      A == IF And(inst, W(\h0080, \h0000)) # Zero
             THEN Or(inst, W(\hFF00, \h0000))
             ELSE inst
      result == Sub(Or(Add(S, Shl(A, 2)), B2W(T)), P)
      imm24 == Shr(And(result, W(\h03FF, \hFFFE)), 2)
      bit_h == Shr(And(result, W(\h0000, \h0002)), 1)
  IN IF T = 1
       THEN _applyReloc(inst, Or(W(\h0000, \h00FA), bit_h), W(\hFF00, \h0000))
       ELSE _applyReloc(inst, imm24, W(\h00FF, \hFFFF))

R_ARM_PREL31_value(P, addend, S, is_function) ==
  LET T == _isThumbFunc(is_function, S)
      A == IF And(addend, W(\h0100, \h0000)) # Zero
             THEN Or(addend, W(\hF100, \h0000))
             ELSE addend
      result == Sub(Or(Add(S, A), B2W(T)), P)
      mask == W(\h7FFF, \hFFFF)
      rel31 == And(result, mask)
  IN _applyReloc(A, rel31, mask)

\* variant that subtracts P before the Thumb bit is OR-ed in
R_ARM_REL32_value_or_last(P, addend, S, is_function) ==
  LET T == _isThumbFunc(is_function, S)
  IN Or(Sub(Add(S, addend), P), B2W(T))

R_ARM_REL32_value(P, addend, S, is_function) ==
  LET T == _isThumbFunc(is_function, S)
  IN Sub(Or(Add(S, addend), B2W(T)), P)

R_ARM_ABS32_value(addend, S, is_function) ==
  LET T == _isThumbFunc(is_function, S)
  IN Or(Add(S, addend), B2W(T))

\* the initial addend of MOVW/MOVT: inst[19:16]:inst[11:0] as a signed value
movw_addend(inst) ==
  LET A == Or(Shr(And(inst, W(\h000F, \h0000)), 4), And(inst, W(\h0000, \h0FFF)))
  IN IF And(A, W(\h0000, \h8000)) # Zero
       THEN Neg(Add(Xor(A, W(\h0000, \hFFFF)), One))
       ELSE A

\* variant of the MOVW/MOVT modification that does not clear the old fields
movw_insert_noclear(inst, part1, part2) ==
  Or(Or(inst, And(Shl(part1, 16), W(\h000F, \h0000))),
     And(part2, W(\h0000, \h0FFF)))

\* inst &= 0xFFF0F000; inst |= (part1 << 16) & 0xF0000; inst |= part2 & 0xFFF
movw_insert(inst, part1, part2) ==
  Or(Or(And(inst, W(\hFFF0, \hF000)),
        And(Shl(part1, 16), W(\h000F, \h0000))),
     And(part2, W(\h0000, \h0FFF)))

R_ARM_MOVW_ABS_NC_value(addend, S, is_function) ==
  LET inst == addend
      T == _isThumbFunc(is_function, S)
      A == movw_addend(inst)
      X == Or(Add(S, A), B2W(T))
      MaskX == And(X, W(\h0000, \hFFFF))
      part1 == Shr(MaskX, 12)
      part2 == And(MaskX, W(\h0000, \h0FFF))
  IN movw_insert(inst, part1, part2)

R_ARM_MOVT_ABS_value(addend, S) ==
  LET inst == addend
      A == movw_addend(inst)
      X == Add(S, A)
      MaskX == And(X, W(\hFFFF, \h0000))
      part1 == Shr(Shr(MaskX, 16), 12)
      part2 == And(Shr(MaskX, 16), W(\h0000, \h0FFF))
  IN movw_insert(inst, part1, part2)

\* R_ARM_THM_CALL.value, "Build A (the initial addend)": the implicit addend
\* of the de-interleaved instruction
thm_call_addend(inst) ==
  LET A1 == Shl(And(inst, gen_mask(11, 0)), 1)
      A2 == Or(A1, Shl(Shr(And(inst, gen_mask(10, 16)), 16), 12))
      sign_bit == BitAnd(Bool(And(inst, gen_mask(1, 26))), 1)
      J1 == (BitAnd(Bool(And(inst, gen_mask(1, 13))), 1) + (1 - sign_bit)) % 2
      J2 == (BitAnd(Bool(And(inst, gen_mask(1, 11))), 1) + (1 - sign_bit)) % 2
      A3 == Or(A2, Shl(B2W(J1), 23))
      A4 == Or(A3, Shl(B2W(J2), 22))
      A5 == And(A4, W(\h007F, \hFFFF))
  IN IF sign_bit = 1 THEN Or(A5, W(\hFF80, \h0000)) ELSE A5

\* variant of the range check with the window of the BL encoding itself
\* (+- 2^24) instead of the +- 2^23 the code enforces
thm_call_out_of_range_w24(x) ==
  /\ And(x, W(\hFF00, \h0000)) # Zero
  /\ And(x, W(\hFF00, \h0000)) # W(\hFF00, \h0000)

\* R_ARM_THM_CALL.value, "Ensure jump is in range": whether the error is raised
thm_call_out_of_range(x) ==
  /\ And(x, W(\hFF80, \h0000)) # Zero
  /\ And(x, W(\hFF80, \h0000)) # W(\hFF80, \h0000)

\* variant of the rebuild whose J bits are XORed with the sign bit itself
\* instead of its complement
thm_call_rebuild_jsign(inst, x) ==
  LET i0 == And(inst, Not(W(\h07FF, \h2FFF)))
      sign_bit == BitAnd(Bool(And(x, gen_mask(1, 24))), 1)
      J1 == (BitAnd(Bool(And(x, gen_mask(1, 23))), 1) + sign_bit) % 2
      J2 == (BitAnd(Bool(And(x, gen_mask(1, 22))), 1) + sign_bit) % 2
      i1 == Or(i0, Shl(B2W(sign_bit), 26))
      i2 == Or(i1, Shl(B2W(J1), 13))
      i3 == Or(i2, Shl(B2W(J2), 11))
      i4 == Or(i3, Shr(And(x, gen_mask(11, 1)), 1))
  IN Or(i4, Shl(Shr(And(x, gen_mask(10, 12)), 12), 16))

\* R_ARM_THM_CALL.value, "Rebuild the instruction": inst with the offset x
thm_call_rebuild(inst, x) ==
  LET i0 == And(inst, Not(W(\h07FF, \h2FFF)))
      sign_bit == BitAnd(Bool(And(x, gen_mask(1, 24))), 1)
      J1 == (BitAnd(Bool(And(x, gen_mask(1, 23))), 1) + (1 - sign_bit)) % 2
      J2 == (BitAnd(Bool(And(x, gen_mask(1, 22))), 1) + (1 - sign_bit)) % 2
      i1 == Or(i0, Shl(B2W(sign_bit), 26))
      i2 == Or(i1, Shl(B2W(J1), 13))
      i3 == Or(i2, Shl(B2W(J2), 11))
      i4 == Or(i3, Shr(And(x, gen_mask(11, 1)), 1))
  IN Or(i4, Shl(Shr(And(x, gen_mask(10, 12)), 12), 16))

\* R_ARM_THM_CALL.value after the instruction bytes are at hand (_insn_bytes is
\* self._insn_bytes once loaded): [err |-> TRUE] stands for the raised
\* CLEOperationError, otherwise val is the returned word.
R_ARM_THM_CALL_value(P, S, is_function, is_rela, addend, _insn_bytes) ==
  LET T == _isThumbFunc(is_function, S)
      inst == thumb_inst(_insn_bytes)
      A == IF is_rela THEN addend ELSE thm_call_addend(inst)
      x == And(Sub(Or(Add(S, A), B2W(T)), P), W(\hFFFF, \hFFFF))
  IN IF thm_call_out_of_range(x)
       THEN [err |-> TRUE, val |-> Zero]
       ELSE [err |-> FALSE, val |-> thumb_result(thm_call_rebuild(inst, x))]

\* the initial addend of the Thumb MOVW/MOVT types: the 16-bit literal
\* gathered from inst[26], inst[19:16], inst[14:12], inst[7:0], signed
thm_movw_addend(inst) ==
  LET A1 == Shl(Shr(And(inst, W(\h0400, \h0000)), 26), 15)
      A2 == Or(A1, Shl(Shr(And(inst, W(\h000F, \h0000)), 16), 11))
      A3 == Or(A2, Shl(Shr(And(inst, W(\h0000, \h7000)), 12), 8))
      A == Or(A3, And(inst, W(\h0000, \h00FF)))
  IN IF And(A, W(\h0000, \h8000)) # Zero
       THEN Neg(Add(Xor(A, W(\h0000, \hFFFF)), One))
       ELSE A

\* the Thumb MOVW/MOVT instruction modification with the four parts
thm_movw_insert(inst, part1, part2, part3, part4) ==
  LET i0 == And(inst, W(\hFBF0, \h8F00))
      i1 == Or(i0, And(Shl(part1, 16), W(\h000F, \h0000)))
      i2 == Or(i1, And(Shl(part2, 26), W(\h0400, \h0000)))
      i3 == Or(i2, And(Shl(part3, 12), W(\h0000, \h7000)))
  IN Or(i3, And(Shl(part4, 0), W(\h0000, \h00FF)))

\* _insn_bytes is memory.load(relative_addr, 4), read on every evaluation
R_ARM_THM_MOVW_ABS_NC_value(S, is_function, _insn_bytes) ==
  LET inst == thumb_inst(_insn_bytes)
      A == thm_movw_addend(inst)
      T == _isThumbFunc(is_function, S)
      X == Or(Add(S, A), B2W(T))
      MaskX == And(X, W(\h0000, \hFFFF))
      part1 == Shr(MaskX, 12)
      part2 == And(Shr(MaskX, 11), W(\h0000, \h0001))
      part3 == And(Shr(MaskX, 8), W(\h0000, \h0007))
      part4 == And(MaskX, W(\h0000, \h00FF))
  IN thumb_result(thm_movw_insert(inst, part1, part2, part3, part4))

R_ARM_THM_MOVT_ABS_value(S, _insn_bytes) ==
  LET inst == thumb_inst(_insn_bytes)
      A == thm_movw_addend(inst)
      X == Add(S, A)
      MaskX == And(X, W(\hFFFF, \h0000))
      part1 == Shr(MaskX, 28)
      part2 == And(Shr(MaskX, 27), W(\h0000, \h0001))
      part3 == And(Shr(MaskX, 24), W(\h0000, \h0007))
      part4 == And(Shr(MaskX, 16), W(\h0000, \h00FF))
  IN thumb_result(thm_movw_insert(inst, part1, part2, part3, part4))

----------------------------------------------------------------------------
(* Bounds and inputs *)

\* relocations applied to one record
MaxRelocs == 2

\* offset of the record's location in the modelled window of the image
RelAddr == 1

\* the window holds one byte before and after the record's 4 bytes
MemAddrs == 0..(RelAddr + 4)

GuardByte == \hAA

\* words found at the location when the record is built
Words ==
  { W(\hEB00, \h0000),   \* ARM   BL   +0
    W(\hEBFF, \hFFFE),   \* ARM   BL   -2 words
    W(\hE30F, \h8FFF),   \* ARM   MOVW r8, #0xFFFF
    W(\hE340, \h1234),   \* ARM   MOVT r1, #0x0234
    W(\hF800, \hF000),   \* Thumb BL   +0        (half-words F000 F800)
    W(\hFFFE, \hF7FF),   \* Thumb BL   -4        (half-words F7FF FFFE)
    W(\h0000, \hF240),   \* Thumb MOVW r0, #0    (half-words F240 0000)
    W(\h537F, \hF6C2),   \* Thumb MOVT r3, #..   (half-words F6C2 537F)
    W(\h0000, \h0000),   \* data  0
    W(\h0100, \h0010),   \* data  bit 24 set, bits 31 and 30 clear
    W(\h7FFF, \hFFF8) }  \* data  -8 as a 31-bit field

\* words at the location of a record with an explicit addend
RelaWords == { W(\hF800, \hF000), W(\hE30F, \h8FFF) }

\* explicit addends (RELA records)
RelaAddends == { W(-1, \hFFFC), W(0, 8) }

\* rebased addresses of the location
Places == { W(\h0000, \h1000), W(\h0080, \h1000) }

\* rebased addresses a symbol can resolve to
SymAddrs ==
  { W(\h0000, \h1000), W(\h0000, \h2000), W(\h0000, \h2001), W(\h0080, \h0FFE),
    W(\h0080, \h1000), W(\h0400, \h1000), W(\hFFFF, \hF000), W(\h1234, \hF679) }

\* the relocation classes with a value of their own
Classes ==
  { "R_ARM_CALL", "R_ARM_PREL31", "R_ARM_REL32", "R_ARM_ABS32",
    "R_ARM_MOVW_ABS_NC", "R_ARM_MOVT_ABS", "R_ARM_THM_CALL",
    "R_ARM_THM_MOVW_ABS_NC", "R_ARM_THM_MOVT_ABS" }

----------------------------------------------------------------------------
(* State: one ELF relocation record and the image it patches, and one PE   *)
(* object whose base-relocation directory is being registered.            *)

VARIABLES
  rtype,        \* the record's class
  mem,          \* owner.memory around the location
  P,            \* rebased_addr of the location
  is_rela,      \* the record carries an explicit addend
  _addend,      \* _addend: [set |-> FALSE] is None
  is_function,  \* symbol.is_function
  resolved,     \* resolvedby is set
  S,            \* resolvedby.rebased_addr
  _insn_bytes,  \* R_ARM_THM_CALL._insn_bytes: <<>> is None
  ret,          \* outcome of the last operation on the record
  pre_mem,      \* mem before the last operation
  nrelocs,      \* relocate calls that wrote the image
  log,          \* messages the last operation logged at warning level or below
  arch,         \* PE: self.arch.name
  DIRECTORY_ENTRY_BASERELOC,  \* PE: self._pe.DIRECTORY_ENTRY_BASERELOC, the
                \* list of blocks, and whether the attribute exists
  relocs,       \* PE: self.relocs
  pic,          \* PE: self.pic
  base_reloc,   \* PE: index of the block the outer loop is at
  entry_idx,    \* PE: entry_idx of __register_relocs
  pc,           \* PE: position in __register_relocs
  visited,      \* PE: history of the while loop: the entry each iteration
                \* read as reloc_data, whether it appended a record, its log
  _pefile_cache,  \* PE._pefile_cache: file path -> parsed pefile object
  _pe,          \* PE: self._pe of the object constructed last
  npefile,      \* PE: pefile.PE objects created so far in the process
  loads         \* PE: history of the constructions: binary, is_main_bin,
                \* whether pefile.PE raised, whether the directories were parsed

\* the ELF relocation record
rec_vars == <<rtype, P, is_rela, _addend, is_function, resolved, S,
              _insn_bytes, ret, pre_mem, nrelocs>>

\* the PE object
\* the parsed-file cache of the process and the constructions so far
cache_vars == <<_pefile_cache, _pe, npefile, loads>>

pe_vars == <<arch, DIRECTORY_ENTRY_BASERELOC, relocs, pic, base_reloc, entry_idx, pc,
             visited, cache_vars>>

vars == <<mem, log, rec_vars, pe_vars>>

NoRet == [op |-> "none", raised |-> FALSE, val |-> Zero, T |-> -1, applied |-> FALSE]

InitMem(w) == pack_word([a \in MemAddrs |-> GuardByte], RelAddr, w)

\* "_pefile_cache = {}": the cache of a process that has constructed no PE
EmptyCache == [p \in {} |-> 0]

NoCache ==
  /\ _pefile_cache = EmptyCache
  /\ _pe = 0
  /\ npefile = 0
  /\ loads = <<>>

\* no PE object is being loaded
NoPE ==
  /\ arch = "none"
  /\ DIRECTORY_ENTRY_BASERELOC = [hasattr |-> FALSE, blocks |-> <<>>]
  /\ relocs = <<>>
  /\ pic = FALSE
  /\ base_reloc = 0
  /\ entry_idx = 0
  /\ pc = "none"
  /\ visited = <<>>
  /\ NoCache

\* ELFReloc.__init__: addend given (RELA) or None (REL)
Init ==
  /\ rtype \in Classes
  /\ P \in Places
  /\ is_function \in BOOLEAN
  /\ is_rela \in BOOLEAN
  /\ \E w \in Words, a \in RelaAddends :
       /\ is_rela => w \in RelaWords
       /\ mem = InitMem(w)
       /\ _addend = IF is_rela THEN [set |-> TRUE, v |-> a]
                               ELSE [set |-> FALSE, v |-> Zero]
  /\ resolved = FALSE
  /\ S = Zero
  /\ _insn_bytes = <<>>
  /\ ret = NoRet
  /\ pre_mem = mem
  /\ nrelocs = 0
  /\ log = <<>>
  /\ NoPE

----------------------------------------------------------------------------
(* Operations on the record *)

\* "class R_ARM_JUMP24(R_ARM_CALL): pass" and the like: the class whose
\* value property a class uses
inherits(c) ==
  CASE c \in { "R_ARM_JUMP24", "R_ARM_PC24" } -> "R_ARM_CALL"
    [] c \in { "R_ARM_THM_JUMP24", "R_ARM_THM_JUMP19", "R_ARM_THM_JUMP6" } ->
         "R_ARM_THM_CALL"
    [] OTHER -> c

\* the class that defines the record's value property
vtype == inherits(rtype)

\* ELFReloc.addend: the explicit addend, or the word at the location read
\* on first use and kept
addend == IF _addend.set THEN _addend.v ELSE unpack_word(mem, RelAddr)

\* whether the class's value reads self.addend
reads_addend ==
  \/ vtype \in { "R_ARM_CALL", "R_ARM_PREL31", "R_ARM_REL32", "R_ARM_ABS32",
                 "R_ARM_MOVW_ABS_NC", "R_ARM_MOVT_ABS" }
  \/ vtype = "R_ARM_THM_CALL" /\ is_rela

\* variant that loads the instruction bytes on every evaluation
thm_call_bytes_reload == load(mem, RelAddr)

\* R_ARM_THM_CALL.value: self._insn_bytes after "if self._insn_bytes is None"
thm_call_bytes == IF _insn_bytes = <<>> THEN load(mem, RelAddr) ELSE _insn_bytes

\* whether the class's value computes T
uses_T == vtype \notin { "R_ARM_MOVT_ABS", "R_ARM_THM_MOVT_ABS" }

Returned(v) == [err |-> FALSE, val |-> v]

\* self.value of a resolved record: the class's property
value ==
  CASE vtype = "R_ARM_CALL" -> Returned(R_ARM_CALL_value(P, addend, S, is_function))
    [] vtype = "R_ARM_PREL31" -> Returned(R_ARM_PREL31_value(P, addend, S, is_function))
    [] vtype = "R_ARM_REL32" -> Returned(R_ARM_REL32_value(P, addend, S, is_function))
    [] vtype = "R_ARM_ABS32" -> Returned(R_ARM_ABS32_value(addend, S, is_function))
    [] vtype = "R_ARM_MOVW_ABS_NC" ->
         Returned(R_ARM_MOVW_ABS_NC_value(addend, S, is_function))
    [] vtype = "R_ARM_MOVT_ABS" -> Returned(R_ARM_MOVT_ABS_value(addend, S))
    [] vtype = "R_ARM_THM_CALL" ->
         R_ARM_THM_CALL_value(P, S, is_function, is_rela,
                              IF is_rela THEN addend ELSE Zero, thm_call_bytes)
    [] vtype = "R_ARM_THM_MOVW_ABS_NC" ->
         Returned(R_ARM_THM_MOVW_ABS_NC_value(S, is_function, load(mem, RelAddr)))
    [] vtype = "R_ARM_THM_MOVT_ABS" ->
         Returned(R_ARM_THM_MOVT_ABS_value(S, load(mem, RelAddr)))

\* what evaluating value leaves on the record: the cached addend and bytes
ValueEffects ==
  /\ _addend' = IF reads_addend THEN [set |-> TRUE, v |-> addend] ELSE _addend
  /\ _insn_bytes' = IF vtype = "R_ARM_THM_CALL" THEN thm_call_bytes ELSE _insn_bytes

\* resolve_symbol succeeded: resolvedby is set to a symbol at address s
Resolve ==
  /\ ~resolved
  /\ ret.op = "none"
  /\ \E s \in SymAddrs : S' = s
  /\ resolved' = TRUE
  /\ UNCHANGED <<rtype, mem, P, is_rela, _addend, is_function, _insn_bytes, ret,
                 pre_mem, nrelocs, log, pe_vars>>

\* reading the value property of a resolved record
EvalValue ==
  /\ resolved
  /\ ValueEffects
  /\ LET v == value
     IN ret' = [op |-> "value", raised |-> v.err, val |-> v.val,
                T |-> IF uses_T THEN _isThumbFunc(is_function, S) ELSE -1,
                applied |-> FALSE]
  /\ pre_mem' = mem
  /\ UNCHANGED <<rtype, mem, P, is_rela, is_function, resolved, S, nrelocs, log,
                 pe_vars>>

\* relocate(): False for an unresolved record; otherwise the value is
\* computed (an error it raises propagates, before anything is written) and
\* stored at the location as a little-endian 32-bit word
Relocate ==
  /\ nrelocs < MaxRelocs
  /\ pre_mem' = mem
  /\ IF ~resolved
       THEN /\ ret' = [op |-> "relocate", raised |-> FALSE, val |-> Zero, T |-> -1,
                       applied |-> FALSE]
            /\ UNCHANGED <<mem, _addend, _insn_bytes, nrelocs>>
       ELSE LET v == value
            IN /\ ValueEffects
               /\ ret' = [op |-> "relocate", raised |-> v.err, val |-> v.val,
                          T |-> IF uses_T THEN _isThumbFunc(is_function, S) ELSE -1,
                          applied |-> ~v.err]
               /\ mem' = IF v.err THEN mem ELSE pack_word(mem, RelAddr, v.val)
               /\ nrelocs' = IF v.err THEN nrelocs ELSE nrelocs + 1
  /\ UNCHANGED <<rtype, P, is_rela, is_function, resolved, S, log, pe_vars>>

Next == Resolve \/ EvalValue \/ Relocate

Spec == Init /\ [][Next]_vars

----------------------------------------------------------------------------
(* arm.py: the handler table, for the types whose classes are modelled *)

\* variant of the table with type 30 bound to the ARM-mode jump class
relocation_table_arm_jump24 ==
  (1 :> "R_ARM_PC24") @@ (2 :> "R_ARM_ABS32") @@ (3 :> "R_ARM_REL32")
    @@ (10 :> "R_ARM_THM_CALL") @@ (28 :> "R_ARM_CALL") @@ (29 :> "R_ARM_JUMP24")
    @@ (30 :> "R_ARM_JUMP24") @@ (42 :> "R_ARM_PREL31")
    @@ (43 :> "R_ARM_MOVW_ABS_NC") @@ (44 :> "R_ARM_MOVT_ABS")
    @@ (47 :> "R_ARM_THM_MOVW_ABS_NC") @@ (48 :> "R_ARM_THM_MOVT_ABS")
    @@ (51 :> "R_ARM_THM_JUMP19") @@ (52 :> "R_ARM_THM_JUMP6")

\* relocation_table_arm
relocation_table_arm ==
  (1 :> "R_ARM_PC24") @@ (2 :> "R_ARM_ABS32") @@ (3 :> "R_ARM_REL32")
    @@ (10 :> "R_ARM_THM_CALL") @@ (28 :> "R_ARM_CALL") @@ (29 :> "R_ARM_JUMP24")
    @@ (30 :> "R_ARM_THM_JUMP24") @@ (42 :> "R_ARM_PREL31")
    @@ (43 :> "R_ARM_MOVW_ABS_NC") @@ (44 :> "R_ARM_MOVT_ABS")
    @@ (47 :> "R_ARM_THM_MOVW_ABS_NC") @@ (48 :> "R_ARM_THM_MOVT_ABS")
    @@ (51 :> "R_ARM_THM_JUMP19") @@ (52 :> "R_ARM_THM_JUMP6")

\* the branch types of the table
BranchTypes == { 1, 10, 28, 29, 30, 51, 52 }

\* ELFReloc.__init__ of a record whose class the table gives for a branch
\* type
InitTable ==
  /\ \E t \in BranchTypes : rtype = relocation_table_arm[t]
  /\ P \in Places
  /\ is_function \in BOOLEAN
  /\ is_rela \in BOOLEAN
  /\ \E w \in Words, a \in RelaAddends :
       /\ is_rela => w \in RelaWords
       /\ mem = InitMem(w)
       /\ _addend = IF is_rela THEN [set |-> TRUE, v |-> a]
                               ELSE [set |-> FALSE, v |-> Zero]
  /\ resolved = FALSE
  /\ S = Zero
  /\ _insn_bytes = <<>>
  /\ ret = NoRet
  /\ pre_mem = mem
  /\ nrelocs = 0
  /\ log = <<>>
  /\ NoPE

SpecTable == InitTable /\ [][Next]_vars

----------------------------------------------------------------------------
(* R_ARM_THM_CALL records over Thumb-2 branch instructions, in an image    *)
(* that is also written by others                                          *)

\* instructions found at the location of an R_ARM_THM_CALL
ThmWords ==
  { W(\hF800, \hF000),   \* BL   +0          (half-words F000 F800)
    W(\hFFFE, \hF7FF),   \* BL   -4          (half-words F7FF FFFE)
    W(\hE800, \hF000),   \* BLX  +0          (half-words F000 E800)
    W(\hF805, \hF001),   \* BL   +0x100A     (half-words F001 F805)
    W(\hD000, \hF000),   \* BL   +0xC00000   (half-words F000 D000)
    W(\hD7FF, \hF7FF),   \* BL   -0x800002   (half-words F7FF D7FF)
    W(\h0000, \h0000),   \* data 0
    W(\hFFFF, \hFFFF) }  \* data, every bit set

\* words another writer stores at the location
StoreWords == { W(\h0000, \h0000), W(\hFFFE, \hF7FF) }

\* ELFReloc.__init__ of an R_ARM_THM_CALL
InitThm ==
  /\ rtype = "R_ARM_THM_CALL"
  /\ P \in Places
  /\ is_function \in BOOLEAN
  /\ is_rela \in BOOLEAN
  /\ \E w \in ThmWords, a \in RelaAddends :
       /\ is_rela => w \in RelaWords
       /\ mem = InitMem(w)
       /\ _addend = IF is_rela THEN [set |-> TRUE, v |-> a]
                               ELSE [set |-> FALSE, v |-> Zero]
  /\ resolved = FALSE
  /\ S = Zero
  /\ _insn_bytes = <<>>
  /\ ret = NoRet
  /\ pre_mem = mem
  /\ nrelocs = 0
  /\ log = <<>>
  /\ NoPE

\* owner.memory.pack_word by another user of the image: the word at the
\* record's location is overwritten, the record itself is not touched
Store ==
  /\ \E w \in StoreWords :
       /\ unpack_word(mem, RelAddr) # w
       /\ mem' = pack_word(mem, RelAddr, w)
  /\ UNCHANGED <<rtype, P, is_rela, _addend, is_function, resolved, S,
                 _insn_bytes, ret, pre_mem, nrelocs, log, pe_vars>>

NextThm == Resolve \/ EvalValue \/ Relocate \/ Store

SpecThm == InitThm /\ [][NextThm]_vars

----------------------------------------------------------------------------
(* Data relocations (R_ARM_ABS32, R_ARM_REL32) at aligned and unaligned    *)
(* places                                                                  *)

\* the data types of the table
DataTypes == { 2, 3 }

\* rebased addresses of a data word: aligned ones and an odd one
DataPlaces == Places \cup { W(\h0000, \h1001) }

\* ELFReloc.__init__ of a record whose class the table gives for a data type
InitData ==
  /\ \E t \in DataTypes : rtype = relocation_table_arm[t]
  /\ P \in DataPlaces
  /\ is_function \in BOOLEAN
  /\ is_rela \in BOOLEAN
  /\ \E w \in Words, a \in RelaAddends :
       /\ is_rela => w \in RelaWords
       /\ mem = InitMem(w)
       /\ _addend = IF is_rela THEN [set |-> TRUE, v |-> a]
                               ELSE [set |-> FALSE, v |-> Zero]
  /\ resolved = FALSE
  /\ S = Zero
  /\ _insn_bytes = <<>>
  /\ ret = NoRet
  /\ pre_mem = mem
  /\ nrelocs = 0
  /\ log = <<>>
  /\ NoPE

SpecData == InitData /\ [][Next]_vars

----------------------------------------------------------------------------
(* arm64.py: the AArch64 classes with a relocate of their own.  Each reads  *)
(* the 4-byte word at relative_addr, keeps the bits outside its field and   *)
(* stores the word back.  P is rebased_addr, addend is self.addend and S is *)
(* resolvedby.rebased_addr; all three are 64-bit quantities.                *)

BranchClasses == { "R_AARCH64_JUMP26", "R_AARCH64_CALL26" }

Lo12Classes ==
  { "R_AARCH64_ADD_ABS_LO12_NC", "R_AARCH64_LDST8_ABS_LO12_NC",
    "R_AARCH64_LDST16_ABS_LO12_NC", "R_AARCH64_LDST32_ABS_LO12_NC",
    "R_AARCH64_LDST64_ABS_LO12_NC", "R_AARCH64_LDST128_ABS_LO12_NC" }

A64Classes == BranchClasses \cup { "R_AARCH64_ADR_PREL_PG_HI21" } \cup Lo12Classes

\* R_AARCH64_JUMP26.value: S + A - P
R_AARCH64_JUMP26_value(P_, A, S_) == Sub(Add(S_, A), P_)

\* R_AARCH64_CALL26.value: S + A - P
R_AARCH64_CALL26_value(P_, A, S_) == Sub(Add(S_, A), P_)

\* R_AARCH64_ADR_PREL_PG_HI21.value: ((S + A) & ~0xFFF) - (P & ~0xFFF)
R_AARCH64_ADR_PREL_PG_HI21_value(P_, A, S_) ==
  Sub(And(Add(S_, A), Not(W(\h0000, \h0FFF))), And(P_, Not(W(\h0000, \h0FFF))))

\* value of the six low-12 classes: S + A
R_AARCH64_ABS_LO12_NC_value(A, S_) == Add(S_, A)

\* not (lo <= v and v < hi)
out_of_range(v, lo, hi) == ~(~Less(v, lo) /\ Less(v, hi))

\* variant of the branch encoder that inserts the value unshifted
R_AARCH64_JUMP26_word_noshift(word, v) ==
  Or(And(word, W(\hFC00, \h0000)), And(v, W(\h03FF, \hFFFF)))

\* variant of the branch encoder whose mask keeps only the top 5 bits
R_AARCH64_JUMP26_word_mask5(word, v) ==
  Or(And(word, W(\hF800, \h0000)), And(Shr(v, 2), W(\h03FF, \hFFFF)))

\* R_AARCH64_JUMP26.relocate / R_AARCH64_CALL26.relocate, the word stored:
\*   instr = word & 0xFC000000; imm = value >> 2 & 0x03FFFFFF; instr | imm
R_AARCH64_JUMP26_word(word, v) ==
  Or(And(word, W(\hFC00, \h0000)), And(Shr(v, 2), W(\h03FF, \hFFFF)))

\* variant of the ADRP encoder that puts immlo at bit 30
R_AARCH64_ADR_PREL_PG_HI21_word_immlo30(word, v) ==
  LET instr == And(word, W(\h9F00, \h001F))
      imm == And(Shr(v, 12), W(\h001F, \hFFFF))
      immlo == And(imm, W(\h0000, \h0003))
      immhi == Shr(imm, 2)
  IN And(Or(Or(instr, Shl(immhi, 5)), Shl(immlo, 30)), W(\hFFFF, \hFFFF))

\* R_AARCH64_ADR_PREL_PG_HI21.relocate, the word stored:
\*   instr = word & 0x9F00001F; imm = value >> 12 & 0x1FFFFF
\*   immlo = imm & 0b11; immhi = imm >> 2; instr | (immhi << 5) | (immlo << 29)
R_AARCH64_ADR_PREL_PG_HI21_word(word, v) ==
  LET instr == And(word, W(\h9F00, \h001F))
      imm == And(Shr(v, 12), W(\h001F, \hFFFF))
      immlo == And(imm, W(\h0000, \h0003))
      immhi == Shr(imm, 2)
  IN Or(Or(instr, Shl(immhi, 5)), Shl(immlo, 29))

\* the right shift each low-12 class applies to value & 0xFFF
lo12_shift(c) ==
  CASE c = "R_AARCH64_ADD_ABS_LO12_NC" -> 0
    [] c = "R_AARCH64_LDST8_ABS_LO12_NC" -> 0
    [] c = "R_AARCH64_LDST16_ABS_LO12_NC" -> 1
    [] c = "R_AARCH64_LDST32_ABS_LO12_NC" -> 2
    [] c = "R_AARCH64_LDST64_ABS_LO12_NC" -> 3
    [] c = "R_AARCH64_LDST128_ABS_LO12_NC" -> 4

\* variant of the low-12 encoder that shifts before masking
R_AARCH64_ABS_LO12_NC_word_shift_first(word, v, k) ==
  Or(And(word, W(\hFFC0, \h03FF)), Shl(And(Shr(v, k), W(\h0000, \h0FFF)), 10))

\* relocate of the six low-12 classes, the word stored:
\*   instr = word & 0xFFC003FF; imm = (value & 0xFFF) >> k; instr | (imm << 10)
R_AARCH64_ABS_LO12_NC_word(word, v, k) ==
  Or(And(word, W(\hFFC0, \h03FF)), Shl(Shr(And(v, W(\h0000, \h0FFF)), k), 10))

\* self.value of a resolved AArch64 record: the class's property
a64_value ==
  CASE rtype = "R_AARCH64_JUMP26" -> R_AARCH64_JUMP26_value(P, addend, S)
    [] rtype = "R_AARCH64_CALL26" -> R_AARCH64_CALL26_value(P, addend, S)
    [] rtype = "R_AARCH64_ADR_PREL_PG_HI21" ->
         R_AARCH64_ADR_PREL_PG_HI21_value(P, addend, S)
    [] rtype \in Lo12Classes -> R_AARCH64_ABS_LO12_NC_value(addend, S)

\* the range test in front of log.warning("relocation out of range"):
\* +-2^27 for the branches, +-2^32 for ADRP, none for the low-12 classes
a64_warns(v) ==
  CASE rtype \in BranchClasses ->
         out_of_range(v, Neg(W(\h0800, \h0000)), W(\h0800, \h0000))
    [] rtype = "R_AARCH64_ADR_PREL_PG_HI21" ->
         out_of_range(v, Neg(W(Base, \h0000)), W(Base, \h0000))
    [] rtype \in Lo12Classes -> FALSE

\* the word the class's relocate packs at relative_addr
a64_word(word, v) ==
  CASE rtype \in BranchClasses -> R_AARCH64_JUMP26_word(word, v)
    [] rtype = "R_AARCH64_ADR_PREL_PG_HI21" -> R_AARCH64_ADR_PREL_PG_HI21_word(word, v)
    [] rtype \in Lo12Classes -> R_AARCH64_ABS_LO12_NC_word(word, v, lo12_shift(rtype))

\* variant of relocate without its first statement
not_resolved_unchecked(is_resolved) == FALSE

\* "if not self.resolved: return False", the first statement of every relocate
not_resolved(is_resolved) == ~is_resolved

\* variant of relocate that reports whether the word it stored differs
relocate_returns_changed(old, new) == old # new

\* "return True", the last statement of every relocate
relocate_returns(old, new) == TRUE

\* words found at the location of an AArch64 record
A64Words ==
  { W(\h9400, \h0000),   \* BL   +0
    W(\h17FF, \hFFFF),   \* B    -4
    W(\h9000, \h0001),   \* ADRP x1, +0
    W(\hF0FF, \hFFE1),   \* ADRP x1, every immediate bit set
    W(\h9100, \h0421),   \* ADD  x1, x1, #1
    W(\hF947, \hFC21),   \* LDR  x1, [x1, #0xFF8]
    W(\hFFFF, \hFFFF) }

\* explicit addends of AArch64 records (the AArch64 ELF ABI uses RELA only)
A64Addends ==
  { Zero, W(\h0000, \h1800), W(\h0000, \h0ABC), W(-1, \hFFFC),
    W(\h07FF, \hFFFC), W(\h0800, \h0000), Neg(W(\h0800, \h0000)),
    Neg(W(\h0800, \h0004)), W(Base, \h0000) }

\* ELFReloc.__init__ of an AArch64 record with its explicit addend
InitA64 ==
  /\ rtype \in A64Classes
  /\ P \in Places
  /\ is_function = FALSE
  /\ is_rela = TRUE
  /\ \E w \in A64Words : mem = InitMem(w)
  /\ \E a \in A64Addends : _addend = [set |-> TRUE, v |-> a]
  /\ resolved = FALSE
  /\ S = Zero
  /\ _insn_bytes = <<>>
  /\ ret = NoRet
  /\ pre_mem = mem
  /\ nrelocs = 0
  /\ log = <<>>
  /\ NoPE

\* relocate() of the AArch64 classes.  ret.applied is the boolean returned.
\* Evaluating value on a record whose resolvedby is None raises.
A64Relocate ==
  /\ rtype \in A64Classes
  /\ nrelocs < MaxRelocs
  /\ pre_mem' = mem
  /\ IF not_resolved(resolved)
       THEN /\ ret' = [op |-> "relocate", raised |-> FALSE, val |-> Zero, T |-> -1,
                       applied |-> FALSE]
            /\ log' = <<>>
            /\ UNCHANGED <<mem, nrelocs>>
       ELSE IF ~resolved
       THEN /\ ret' = [op |-> "relocate", raised |-> TRUE, val |-> Zero, T |-> -1,
                       applied |-> FALSE]
            /\ log' = <<>>
            /\ UNCHANGED <<mem, nrelocs>>
       ELSE LET v == a64_value
                word == unpack_word(mem, RelAddr)
            IN /\ log' = IF a64_warns(v) THEN <<"relocation out of range">> ELSE <<>>
               /\ mem' = pack_word(mem, RelAddr, a64_word(word, v))
               /\ ret' = [op |-> "relocate", raised |-> FALSE, val |-> v, T |-> -1,
                          applied |-> relocate_returns(word, a64_word(word, v))]
               /\ nrelocs' = nrelocs + 1
  /\ UNCHANGED <<rtype, P, is_rela, _addend, is_function, resolved, S, _insn_bytes,
                 pe_vars>>

NextA64 == Resolve \/ A64Relocate

SpecA64 == InitA64 /\ [][NextA64]_vars

----------------------------------------------------------------------------
(* pe.py: registration of the base-relocation directory.  An entry is       *)
(* [type, rva]; a relocation record is [cls, addr, next_rva].               *)

\* Python None, where an integer or nothing is passed
None == -1

\* pefile.RELOCATION_TYPE["IMAGE_REL_BASED_HIGHADJ"]
IMAGE_REL_BASED_HIGHADJ == 4

\* the relocation classes relocation/amd64.py defines, by type number
relocation_table_amd64 ==
  (1 :> "IMAGE_REL_BASED_HIGH") @@ (2 :> "IMAGE_REL_BASED_LOW")
    @@ (3 :> "IMAGE_REL_BASED_HIGHLOW") @@ (4 :> "IMAGE_REL_BASED_HIGHADJ")
    @@ (10 :> "IMAGE_REL_BASED_DIR64")

\* get_relocation(arch, r_type): the class of the architecture's table for
\* the type, None when the architecture has no table or the table no entry
get_relocation(arch_name, reloc_type) ==
  IF arch_name = "AMD64" /\ reloc_type \in DOMAIN relocation_table_amd64
    THEN relocation_table_amd64[reloc_type]
    ELSE "None"

\* a relocation record, and the None _make_reloc returns instead of one
Reloc(cls, addr, next_rva) == [cls |-> cls, addr |-> addr, next_rva |-> next_rva]

NoReloc == Reloc("None", None, None)

\* variant of _make_reloc that looks every type up in the table first
_make_reloc_lookup_first(arch_name, addr, reloc_type, next_rva) ==
  LET RelocClass == get_relocation(arch_name, reloc_type)
  IN IF RelocClass = "None"
       THEN [reloc |-> NoReloc,
             log |-> <<"Failed to find relocation class for arch %s, type %d">>]
     ELSE IF reloc_type = 0
       THEN [reloc |-> Reloc("IMAGE_REL_BASED_ABSOLUTE", addr, None), log |-> <<>>]
     ELSE IF next_rva # None
       THEN [reloc |-> Reloc("IMAGE_REL_BASED_HIGHADJ", addr, next_rva), log |-> <<>>]
     ELSE [reloc |-> Reloc(RelocClass, addr, None), log |-> <<>>]

\* PE._make_reloc(addr, reloc_type, next_rva=None) with symbol and
\* resolvewith None: the record built (or None) and what is logged
_make_reloc(arch_name, addr, reloc_type, next_rva) ==
  IF reloc_type = 0
    THEN [reloc |-> Reloc("IMAGE_REL_BASED_ABSOLUTE", addr, None), log |-> <<>>]
  ELSE IF reloc_type = None
    THEN [reloc |-> Reloc("DllImport", addr, None), log |-> <<>>]
  ELSE IF next_rva # None
    THEN [reloc |-> Reloc("IMAGE_REL_BASED_HIGHADJ", addr, next_rva), log |-> <<>>]
  ELSE LET RelocClass == get_relocation(arch_name, reloc_type)
       IN IF RelocClass = "None"
            THEN [reloc |-> NoReloc,
                  log |-> <<"Failed to find relocation class for arch %s, type %d">>]
            ELSE [reloc |-> Reloc(RelocClass, addr, None), log |-> <<>>]

\* variant of the HIGHADJ branch that does not step over the second entry
highadj_entry_idx_kept(idx) == idx

\* variant of the HIGHADJ branch that steps the cursor back, so that the
\* loop's own increment leaves it where it was
highadj_entry_idx_back(idx) == idx - 1

\* "entry_idx += 1" of the HIGHADJ branch
highadj_entry_idx(idx) == idx + 1

\* entries in a directory, and blocks in a directory
MaxEntries == 4

MaxBlocks == 2

\* entry types: ABSOLUTE, HIGHLOW, HIGHADJ, and MIPS_JMPADDR, which no
\* table of the modelled architectures has
EntryTypes == { 0, 3, IMAGE_REL_BASED_HIGHADJ, 5 }

\* architectures: one with a relocation table, one without
Archs == { "AMD64", "PPC32" }

\* the sum of the first n elements of a sequence of numbers
RECURSIVE SumTo(_, _)
SumTo(lens, n) == IF n = 0 THEN 0 ELSE SumTo(lens, n - 1) + lens[n]

\* the directory with Len(lens) blocks, block b holding lens[b] entries whose
\* types are taken from types in order; an entry's rva is its block's page
\* plus its offset
MkDirectory(lens, types) ==
  [b \in 1..Len(lens) |->
     [i \in 1..lens[b] |->
        [type |-> types[SumTo(lens, b - 1) + i], rva |-> b * 4096 + 4 * i]]]

\* the relocation record _handle_imports has appended before the directory
\* is registered
ImportReloc == Reloc("DllImport", 8192 + 2048, None)

\* no ELF record is involved
NoRecord ==
  /\ rtype = "none"
  /\ P = Zero
  /\ is_rela = FALSE
  /\ _addend = [set |-> FALSE, v |-> Zero]
  /\ is_function = FALSE
  /\ resolved = FALSE
  /\ S = Zero
  /\ _insn_bytes = <<>>
  /\ ret = NoRet
  /\ pre_mem = mem
  /\ nrelocs = 0

\* PE.__init__ up to the call of __register_relocs
InitPE ==
  /\ arch \in Archs
  /\ \/ DIRECTORY_ENTRY_BASERELOC = [hasattr |-> FALSE, blocks |-> <<>>]
     \/ \E nb \in 0..MaxBlocks :
          \E lens \in [1..nb -> 0..MaxEntries] :
            /\ SumTo(lens, nb) <= MaxEntries
            /\ \E types \in [1..SumTo(lens, nb) -> EntryTypes] :
                 DIRECTORY_ENTRY_BASERELOC =
                   [hasattr |-> TRUE, blocks |-> MkDirectory(lens, types)]
  /\ relocs \in { <<>>, <<ImportReloc>> }
  /\ pic \in BOOLEAN
  /\ base_reloc = 0
  /\ entry_idx = 0
  /\ pc = "start"
  /\ visited = <<>>
  /\ NoCache
  /\ mem = InitMem(Zero)
  /\ log = <<>>
  /\ NoRecord

\* base_reloc.entries of the block the for loop is at
entries == DIRECTORY_ENTRY_BASERELOC.blocks[base_reloc]

\* __register_relocs is entered: without the directory it logs and returns
__register_relocs ==
  /\ pc = "start"
  /\ IF ~DIRECTORY_ENTRY_BASERELOC.hasattr
       THEN /\ log' = <<"%s has no relocations">>
            /\ pc' = "done"
       ELSE /\ log' = <<>>
            /\ pc' = "for"
  /\ UNCHANGED <<mem, rec_vars, arch, DIRECTORY_ENTRY_BASERELOC, relocs, pic,
                 base_reloc, entry_idx, visited, cache_vars>>

\* "for base_reloc in ...": the next block with entry_idx = 0, or the return
\* once the blocks are exhausted; reached at the start and when the while
\* loop of a block ends
ForNext ==
  /\ \/ pc = "for"
     \/ pc = "while" /\ ~(entry_idx < Len(entries))
  /\ IF base_reloc < Len(DIRECTORY_ENTRY_BASERELOC.blocks)
       THEN /\ base_reloc' = base_reloc + 1
            /\ entry_idx' = 0
            /\ pc' = "while"
       ELSE /\ pc' = "done"
            /\ UNCHANGED <<base_reloc, entry_idx>>
  /\ log' = <<>>
  /\ UNCHANGED <<mem, rec_vars, arch, DIRECTORY_ENTRY_BASERELOC, relocs, pic, visited,
                 cache_vars>>

\* one iteration of "while entry_idx < len(base_reloc.entries)".  Python
\* indexes from 0: base_reloc.entries[k] is entries[k + 1].
WhileBody ==
  /\ pc = "while"
  /\ entry_idx < Len(entries)
  /\ LET reloc_data == entries[entry_idx + 1]
         highadj == reloc_data.type = IMAGE_REL_BASED_HIGHADJ
     IN IF highadj /\ entry_idx = Len(entries)
          THEN \* log.warning and break
               /\ log' = <<"PE contains corrupt base relocation table">>
               /\ pc' = "for"
               /\ visited' = Append(visited, [block |-> base_reloc, idx |-> entry_idx,
                                              made |-> FALSE, log |-> log'])
               /\ UNCHANGED <<relocs, pic, entry_idx>>
          ELSE LET next_entry == entries[entry_idx + 1]
                   r == IF highadj
                          THEN _make_reloc(arch, reloc_data.rva, reloc_data.type,
                                           next_entry.rva)
                          ELSE _make_reloc(arch, reloc_data.rva, reloc_data.type, None)
                   idx == IF highadj THEN highadj_entry_idx(entry_idx) ELSE entry_idx
               IN /\ log' = r.log
                  /\ relocs' = IF r.reloc # NoReloc THEN Append(relocs, r.reloc)
                                                    ELSE relocs
                  /\ pic' = IF r.reloc # NoReloc THEN TRUE ELSE pic
                  /\ entry_idx' = idx + 1
                  /\ pc' = "while"
                  /\ visited' = Append(visited, [block |-> base_reloc, idx |-> entry_idx,
                                                 made |-> r.reloc # NoReloc,
                                                 log |-> r.log])
  /\ UNCHANGED <<mem, rec_vars, arch, DIRECTORY_ENTRY_BASERELOC, base_reloc, cache_vars>>

NextPE == __register_relocs \/ ForNext \/ WhileBody

SpecPE == InitPE /\ [][NextPE]_vars

----------------------------------------------------------------------------
(* pe.py: PE.__init__ up to the choice of self._pe, over the constructions *)
(* of one process.  A file path is a number; None is the binary of an      *)
(* object loaded from a stream.                                            *)

\* file paths, and constructions in a process
MaxPaths == 2

MaxLoads == 4

Paths == 1..MaxPaths

\* variant that caches the parsed file of the main binary too
caches_always(is_main_bin) == TRUE

\* "if not self.is_main_bin": whether the parsed file is put in the cache
caches(is_main_bin) == ~is_main_bin

\* a process that has constructed no PE object yet
InitCache ==
  /\ mem = InitMem(Zero)
  /\ log = <<>>
  /\ NoRecord
  /\ NoPE

Load(binary, is_main_bin, raised, parsed) ==
  [binary |-> binary, is_main_bin |-> is_main_bin, raised |-> raised,
   parsed |-> parsed]

\* PE.__init__(binary, is_main_bin), lines 50-61: valid is whether pefile.PE
\* accepts the file (it raises PEFormatError otherwise, which ends the
\* construction)
__init__ ==
  /\ Len(loads) < MaxLoads
  /\ \E binary \in { None } \cup Paths, is_main_bin \in BOOLEAN, valid \in BOOLEAN :
       IF binary = None
         THEN IF valid
                THEN \* pefile.PE(data=...), _parse_pe_non_reloc_data_directories()
                     /\ npefile' = npefile + 1
                     /\ _pe' = npefile'
                     /\ loads' = Append(loads, Load(binary, is_main_bin, FALSE, TRUE))
                     /\ UNCHANGED _pefile_cache
                ELSE /\ loads' = Append(loads, Load(binary, is_main_bin, TRUE, FALSE))
                     /\ UNCHANGED <<_pefile_cache, _pe, npefile>>
       ELSE IF binary \in DOMAIN _pefile_cache
         THEN /\ valid
              /\ _pe' = _pefile_cache[binary]
              /\ loads' = Append(loads, Load(binary, is_main_bin, FALSE, FALSE))
              /\ UNCHANGED <<_pefile_cache, npefile>>
       ELSE IF valid
         THEN \* pefile.PE(self.binary), _parse_pe_non_reloc_data_directories()
              /\ npefile' = npefile + 1
              /\ _pe' = npefile'
              /\ loads' = Append(loads, Load(binary, is_main_bin, FALSE, TRUE))
              /\ _pefile_cache' =
                   IF caches(is_main_bin)
                     THEN [p \in DOMAIN _pefile_cache \cup { binary } |->
                             IF p = binary THEN _pe' ELSE _pefile_cache[p]]
                     ELSE _pefile_cache
         ELSE /\ loads' = Append(loads, Load(binary, is_main_bin, TRUE, FALSE))
              /\ UNCHANGED <<_pefile_cache, _pe, npefile>>
  /\ UNCHANGED <<mem, log, rec_vars, arch, DIRECTORY_ENTRY_BASERELOC, relocs, pic,
                 base_reloc, entry_idx, pc, visited>>

NextCache == __init__

SpecCache == InitCache /\ [][NextCache]_vars

----------------------------------------------------------------------------
(* Vocabulary of the properties: plain arithmetic on the pairs, written    *)
(* without the bitwise operators the code is modelled with.                *)

\* n is a 32-bit word
Is32(n) == n[1] \in 0..(Base - 1)

\* n mod 2^32
Wrap32(n) == W(n[1] % Base, n[2])

\* the 32-bit word n read as a two's-complement number
Signed32(n) == IF n[1] >= 2^15 THEN W(n[1] - Base, n[2]) ELSE n

\* n | t for a bit t
OrBit0(n, t) == IF t = 1 /\ n[2] % 2 = 0 THEN Add(n, One) ELSE n

\* -2^k <= n < 2^k, for 16 <= k
InWindow(n, k) == -(2^(k - 16)) <= n[1] /\ n[1] < 2^(k - 16)

\* the Thumb bit the property expects for the bound symbol
ThumbBit == IF S[2] % 2 = 1 /\ is_function THEN 1 ELSE 0

\* an operation on a resolved record of class c has completed
Done(c) == rtype = c /\ resolved /\ ret.op # "none"

\* the little-endian bytes of the 32-bit word w
WordBytes(w) == <<w[2] % 256, w[2] \div 256, w[1] % 256, (w[1] \div 256) % 256>>

----------------------------------------------------------------------------
(* C1 *)

\* the addend R_ARM_THM_CALL used: explicit, or taken from the cached bytes
ThmCallA == IF is_rela THEN _addend.v ELSE thm_call_addend(thumb_inst(_insn_bytes))

\* the PC-relative delta ((S + A) | T) - P as the 32-bit signed number the
\* branch sees
ThmCallDelta == Signed32(Wrap32(Sub(OrBit0(Add(S, ThmCallA), ThumbBit), P)))

\* C1: whenever the delta of an R_ARM_THM_CALL does not fit [-2^23, 2^23),
\* the operation ends with CLEOperationError raised, no word returned, and
\* the image is byte for byte what it was before the operation.
C1_ThmCallOverflowRaises ==
  (Done("R_ARM_THM_CALL") /\ ~InWindow(ThmCallDelta, 23))
    => (ret.raised /\ ~ret.applied /\ mem = pre_mem)

\* an R_ARM_THM_CALL whose delta is 2^23, just past the window: the error is
\* raised
C1_Witness ==
  /\ Done("R_ARM_THM_CALL")
  /\ ThmCallDelta = W(\h0080, \h0000)
  /\ ret.raised
  /\ mem = pre_mem

----------------------------------------------------------------------------
(* C2 *)

\* the 24-bit field inst[23:0] as a signed number
SignExt24(inst) ==
  LET f == W(inst[1] % 256, inst[2])
  IN IF f[1] >= 128 THEN Sub(f, W(256, 0)) ELSE f

\* bits [25:2] of n
Bits25to2(n) == LET q == Shr(n, 2) IN W(q[1] % 256, q[2])

\* the word the property expects of a branch to an ARM-mode target
Branch24Expected(inst) ==
  LET imm24 == Bits25to2(Sub(Add(S, Shl(SignExt24(inst), 2)), P))
  IN W((inst[1] \div 256) * 256 + imm24[1], imm24[2])

\* C2: for a non-Thumb target, R_ARM_CALL returns (inst & 0xFF000000) | imm24
\* with imm24 = bits [25:2] of S + (signext24(inst[23:0]) << 2) - P; for
\* inst addend 0, S = 0x2000, P = 0x1000 the immediate is 0x400.
C2_Branch24ArmEncoding ==
  (Done("R_ARM_CALL") /\ Is32(_addend.v) /\ ThumbBit = 0)
    => /\ ~ret.raised
       /\ ret.val = Branch24Expected(_addend.v)
       /\ (_addend.v = W(\hEB00, \h0000) /\ S = W(\h0000, \h2000)
             /\ P = W(\h0000, \h1000))
            => ret.val = W(\hEB00, \h0400)

\* the example of the property: BL with addend 0 at 0x1000 bound to 0x2000
C2_Witness ==
  /\ Done("R_ARM_CALL")
  /\ ThumbBit = 0
  /\ _addend.v = W(\hEB00, \h0000)
  /\ S = W(\h0000, \h2000)
  /\ P = W(\h0000, \h1000)
  /\ ret.val = W(\hEB00, \h0400)

----------------------------------------------------------------------------
(* C3 *)

\* the word w with its byte k (0 the lowest) replaced by b
WithByte(w, k, b) == LET x == WordBytes(w)
                         y == [x EXCEPT ![k + 1] = b]
                     IN W(y[4] * 256 + y[3], y[2] * 256 + y[1])

\* bit 1 of ((S + (A << 2)) | T) - P for the branch at the location
Branch24BitH(inst) ==
  (Sub(OrBit0(Add(S, Shl(SignExt24(inst), 2)), ThumbBit), P)[2] \div 2) % 2

\* C3: for a Thumb target, R_ARM_CALL returns the original instruction with
\* exactly one byte replaced by 0xFA | H, H being bit 1 of
\* ((S + (A << 2)) | T) - P, and every other bit preserved.
C3_Branch24ThumbPattern ==
  (Done("R_ARM_CALL") /\ Is32(_addend.v) /\ ThumbBit = 1)
    => \E k \in 0..3 :
         ret.val = WithByte(_addend.v, k, \hFA + Branch24BitH(_addend.v))

----------------------------------------------------------------------------
(* C4 *)

\* the classes whose value computes T
ThumbAware ==
  { "R_ARM_CALL", "R_ARM_PREL31", "R_ARM_REL32", "R_ARM_ABS32",
    "R_ARM_MOVW_ABS_NC", "R_ARM_THM_CALL", "R_ARM_THM_MOVW_ABS_NC" }

\* C4: the Thumb bit T the ARM relocation types use is 1 exactly when the
\* resolved address is odd and the symbol is a function, and 0 otherwise;
\* R_ARM_ABS32 accordingly returns (S + A) with bit 0 set exactly then.
C4_ThumbBitIffOddFunction ==
  \A c \in ThumbAware :
    Done(c) =>
      /\ ret.T = (IF S[2] % 2 = 1 /\ is_function THEN 1 ELSE 0)
      /\ (S[2] % 2 = 0 \/ ~is_function) => ret.T = 0
      /\ c = "R_ARM_ABS32" => ret.val = OrBit0(Add(S, _addend.v), ThumbBit)

\* R_ARM_ABS32 of an odd address of a symbol that is no function, with an
\* odd addend: S + A is even and stays even
C4_Witness ==
  /\ Done("R_ARM_ABS32")
  /\ S[2] % 2 = 1
  /\ ~is_function
  /\ _addend.v[2] % 2 = 1
  /\ ret.T = 0
  /\ ret.val[2] % 2 = 0

\* the same binding with a function symbol: T is 1
C4_WitnessThumb ==
  /\ Done("R_ARM_ABS32")
  /\ S[2] % 2 = 1
  /\ is_function
  /\ ret.T = 1

----------------------------------------------------------------------------
(* C5 *)

ThumbMovClasses == { "R_ARM_THM_MOVW_ABS_NC", "R_ARM_THM_MOVT_ABS" }

\* C5: applying R_ARM_THM_MOVW_ABS_NC / R_ARM_THM_MOVT_ABS a second time with
\* the same binding, after the first result was written, produces the same 4
\* bytes as the first application.
C5_ThumbMovReapplySameBytes ==
  \A c \in ThumbMovClasses :
    (Done(c) /\ ret.op = "relocate" /\ nrelocs >= 2)
      => load(mem, RelAddr) = load(pre_mem, RelAddr)

----------------------------------------------------------------------------
(* C6 *)

\* n mod 2^16
Low16(n) == n[2]

\* the 16-bit immediate the Thumb MOVW/MOVT encoder was given: the low half
\* of (S + A) | T, resp. the high half of S + A, A taken from the
\* instruction that was at the location before the operation
ThumbMovTarget ==
  LET A == thm_movw_addend(thumb_inst(load(pre_mem, RelAddr)))
  IN IF rtype = "R_ARM_THM_MOVW_ABS_NC"
       THEN Low16(OrBit0(Add(S, A), ThumbBit))
       ELSE Add(S, A)[1] % Base

\* C6: the instruction the Thumb MOVW/MOVT encoder produces for a 16-bit
\* immediate X decodes, by the same type's addend extraction, back to X.
C6_ThumbMovRoundTrip ==
  \A c \in ThumbMovClasses :
    Done(c) =>
      Low16(thm_movw_addend(thumb_inst(WordBytes(ret.val)))) = ThumbMovTarget

----------------------------------------------------------------------------
(* C7 *)

\* n with bit 0 cleared
ClearBit0(n) == W(n[1], n[2] - (n[2] % 2))

\* C7: the instruction R_ARM_THM_CALL builds for a delta in [-2^23, 2^23)
\* decodes, by the type's own implicit-addend extraction, to that delta with
\* bit 0 cleared, as a 32-bit two's-complement value.
C7_ThmCallRoundTrip ==
  (Done("R_ARM_THM_CALL") /\ InWindow(ThmCallDelta, 23))
    => /\ ~ret.raised
       /\ thm_call_addend(thumb_inst(WordBytes(ret.val)))
            = ClearBit0(Wrap32(ThmCallDelta))

\* a backward call at the low edge of the window, written to the image
C7_Witness ==
  /\ Done("R_ARM_THM_CALL")
  /\ ret.op = "relocate"
  /\ ret.applied
  /\ ThmCallDelta = W(-\h0080, \h0000)
  /\ load(mem, RelAddr) = WordBytes(ret.val)

\* a forward call whose offset has bit 22 set and bit 0 set (Thumb target)
C7_WitnessForward ==
  /\ Done("R_ARM_THM_CALL")
  /\ ~ret.raised
  /\ ThmCallDelta[1] >= \h0040
  /\ ThmCallDelta[2] % 2 = 1

----------------------------------------------------------------------------
(* C8 *)

\* the 16-bit immediate inst[19:16]:inst[11:0] of an ARM MOVW/MOVT
MovField16(inst) == (inst[1] % 16) * 4096 + (inst[2] % 4096)

\* a 16-bit number sign-extended from bit 15
SignExt16(n) == IF n >= 2^15 THEN W(-1, n) ELSE W(0, n)

ArmMovClasses == { "R_ARM_MOVW_ABS_NC", "R_ARM_MOVT_ABS" }

\* the 16-bit value the ARM MOVW/MOVT encoder is to store
ArmMovTarget ==
  LET A == SignExt16(MovField16(_addend.v))
  IN IF rtype = "R_ARM_MOVW_ABS_NC"
       THEN Low16(OrBit0(Add(S, A), ThumbBit))
       ELSE Add(S, A)[1] % Base

\* C8: the ARM MOVW/MOVT addend is inst[19:16]:inst[11:0] sign-extended from
\* bit 15; the output of R_ARM_MOVW_ABS_NC carries in those fields the low 16
\* bits of (S + A) | T, that of R_ARM_MOVT_ABS bits [31:16] of S + A; decoding
\* the output's fields returns the 16-bit value encoded.
C8_ArmMovRoundTrip ==
  \A c \in ArmMovClasses :
    Done(c) =>
      /\ movw_addend(_addend.v) = SignExt16(MovField16(_addend.v))
      /\ MovField16(ret.val) = ArmMovTarget
      /\ Low16(movw_addend(ret.val)) = ArmMovTarget

\* a MOVW whose addend is negative (0xFFFF) and whose result has bit 15 set
C8_Witness ==
  /\ Done("R_ARM_MOVW_ABS_NC")
  /\ MovField16(_addend.v) = \hFFFF
  /\ MovField16(ret.val) >= 2^15
  /\ MovField16(ret.val) = ArmMovTarget

\* a MOVT whose high half comes from an address above 2^31
C8_WitnessMovt ==
  /\ Done("R_ARM_MOVT_ABS")
  /\ Is32(_addend.v)
  /\ S[1] >= 2^15
  /\ MovField16(ret.val) = ArmMovTarget
  /\ MovField16(ret.val) # MovField16(_addend.v)

----------------------------------------------------------------------------
(* C9 *)

\* the 31-bit field of the word sign-extended from bit 30
SignExt31(w) ==
  LET f == W(w[1] % 2^15, w[2])
  IN IF f[1] >= 2^14 THEN Sub(f, W(2^15, 0)) ELSE f

\* n mod 2^31
Low31(n) == W(n[1] % 2^15, n[2])

\* C9: for R_ARM_PREL31 the addend is bits 30:0 of the word at the location
\* sign-extended from bit 30, the low 31 bits of the returned word are
\* (((S + A) | T) - P) mod 2^31, and bit 31 of the returned word is bit 31
\* of the original word.
C9_Prel31Encoding ==
  (Done("R_ARM_PREL31") /\ Is32(_addend.v)) =>
    /\ Low31(ret.val)
         = Low31(Sub(OrBit0(Add(S, SignExt31(_addend.v)), ThumbBit), P))
    /\ ret.val[1] \div 2^15 = _addend.v[1] \div 2^15

----------------------------------------------------------------------------
(* C10 *)

\* the delta of a branch-24 as the 32-bit signed number the branch sees
Branch24Delta(inst) ==
  Signed32(Wrap32(Sub(OrBit0(Add(S, Shl(SignExt24(inst), 2)), ThumbBit), P)))

\* C10: the value of R_ARM_CALL always completes without an error, and when
\* the delta is outside the reach of the 24-bit word-aligned immediate
\* ([-2^25, 2^25)) the returned word is the fixed fallback value 0 rather
\* than an instruction carrying a truncated offset.
C10_Branch24OverflowFallback ==
  (Done("R_ARM_CALL") /\ Is32(_addend.v)) =>
    /\ ~ret.raised
    /\ ~InWindow(Branch24Delta(_addend.v), 25) => ret.val = Zero

----------------------------------------------------------------------------
(* AArch64 vocabulary *)

\* floor(n / 2^k), for k < 15
DivPow2(n, k) == W(n[1] \div 2^k, ((n[1] % 2^k) * Base + n[2]) \div 2^k)

\* n mod 2^k as a TLC integer, for 16 <= k < 31
ModPow2(n, k) == (n[1] % 2^(k - 16)) * Base + n[2]

\* the word at the record's location before and after the last operation
OldWord == unpack_word(pre_mem, RelAddr)

NewWord == unpack_word(mem, RelAddr)

\* relocate has run on a resolved record of class c
A64Done(c) == rtype = c /\ resolved /\ ret.op = "relocate"

\* bits 31:26 of a word
Top6(w) == w[1] \div 2^10

----------------------------------------------------------------------------
(* C14 *)

\* S + A - P of the record
A64Delta == Sub(Add(S, _addend.v), P)

\* C14: relocate of a resolved R_AARCH64_JUMP26 or R_AARCH64_CALL26 returns
\* True and leaves a word whose top 6 bits are those of the word it found
\* and whose low 26 bits are ((S + A - P) >> 2) mod 2^26, also when
\* S + A - P is outside [-2^27, 2^27), which is logged and nothing more.
C14_Branch26Encoding ==
  \A c \in BranchClasses :
    A64Done(c) =>
      /\ ret.applied /\ ~ret.raised
      /\ Top6(NewWord) = Top6(OldWord)
      /\ ModPow2(NewWord, 26) = ModPow2(DivPow2(A64Delta, 2), 26)
      /\ (log = <<"relocation out of range">>) <=> ~InWindow(A64Delta, 27)

\* a branch whose delta is exactly 2^27: logged, written, True returned
C14_Witness ==
  /\ A64Done("R_AARCH64_CALL26")
  /\ A64Delta = W(\h0800, \h0000)
  /\ log = <<"relocation out of range">>
  /\ ret.applied
  /\ mem # pre_mem

----------------------------------------------------------------------------
(* C15 *)

\* n with its low 12 bits cleared
Page(n) == W(n[1], n[2] - (n[2] % 4096))

\* bits 30:29 and bits 23:5 of an instruction word
ImmLo(w) == (w[1] \div 2^13) % 4

ImmHi(w) == (w[1] % 256) * 2^11 + (w[2] \div 32)

\* C15: R_AARCH64_ADR_PREL_PG_HI21 computes Page(S + A) - Page(P) and stores
\* imm = (value >> 12) mod 2^21 as immlo = imm mod 4 in bits 30:29 and
\* immhi = imm div 4 in bits 23:5, so that the two fields give imm back;
\* P = 0x1000 and S + A = 0x3800 give value 0x2000, immlo 2 and immhi 0.
C15_AdrpEncoding ==
  A64Done("R_AARCH64_ADR_PREL_PG_HI21") =>
    LET imm == ModPow2(DivPow2(ret.val, 12), 21)
    IN /\ ret.val = Sub(Page(Add(S, _addend.v)), Page(P))
       /\ ImmLo(NewWord) = imm % 4
       /\ ImmHi(NewWord) = imm \div 4
       /\ ImmHi(NewWord) * 4 + ImmLo(NewWord) = imm
       /\ (P = W(\h0000, \h1000) /\ Add(S, _addend.v) = W(\h0000, \h3800))
            => (ret.val = W(\h0000, \h2000) /\ ImmLo(NewWord) = 2
                  /\ ImmHi(NewWord) = 0)

\* the example of the property, applied to an ADRP whose immediate bits
\* were all set
C15_Witness ==
  /\ A64Done("R_AARCH64_ADR_PREL_PG_HI21")
  /\ P = W(\h0000, \h1000)
  /\ Add(S, _addend.v) = W(\h0000, \h3800)
  /\ OldWord = W(\hF0FF, \hFFE1)
  /\ NewWord = W(\hD000, \h0001)

\* a negative page delta
C15_WitnessBackward ==
  /\ A64Done("R_AARCH64_ADR_PREL_PG_HI21")
  /\ ret.val[1] < 0
  /\ ImmHi(NewWord) >= 2^18

----------------------------------------------------------------------------
(* C16 *)

\* the scale the property gives each low-12 class
Lo12Scale ==
  ("R_AARCH64_ADD_ABS_LO12_NC" :> 0) @@ ("R_AARCH64_LDST8_ABS_LO12_NC" :> 0)
    @@ ("R_AARCH64_LDST16_ABS_LO12_NC" :> 1) @@ ("R_AARCH64_LDST32_ABS_LO12_NC" :> 2)
    @@ ("R_AARCH64_LDST64_ABS_LO12_NC" :> 3) @@ ("R_AARCH64_LDST128_ABS_LO12_NC" :> 4)

\* bits 21:10 of an instruction word
Imm12(w) == (w[1] % 64) * 64 + (w[2] \div 1024)

\* C16: relocate of a resolved low-12 record stores ((S + A) & 0xFFF) >> k in
\* bits 21:10, k being 0, 0, 1, 2, 3, 4 for ADD, LDST8, LDST16, LDST32,
\* LDST64, LDST128.
C16_Lo12Encoding ==
  \A c \in Lo12Classes :
    A64Done(c) =>
      Imm12(NewWord) = (Add(S, _addend.v)[2] % 4096) \div 2^Lo12Scale[c]

\* a 128-bit load whose target has low bits that the scale drops
C16_Witness ==
  /\ A64Done("R_AARCH64_LDST128_ABS_LO12_NC")
  /\ Add(S, _addend.v)[2] % 4096 = \h0ABD
  /\ Imm12(NewWord) = \h00AB

----------------------------------------------------------------------------
(* C17 *)

\* the bits of a word that class c does not own
A64Outside(c, w) ==
  IF c \in BranchClasses THEN <<Top6(w)>>
  ELSE IF c = "R_AARCH64_ADR_PREL_PG_HI21"
    THEN <<w[1] \div 2^15, (w[1] \div 256) % 32, w[2] % 32>>
  ELSE <<w[1] \div 64, w[2] % 1024>>

\* C17: relocate of every AArch64 class leaves the bits outside its field
\* (31:26 for the branches; 31, 28:24 and 4:0 for ADRP; 31:22 and 9:0 for
\* the low-12 classes) as they were, and writes no byte other than the 4 at
\* the record's location.
C17_A64FieldOnly ==
  \A c \in A64Classes :
    A64Done(c) =>
      /\ A64Outside(c, NewWord) = A64Outside(c, OldWord)
      /\ \A a \in MemAddrs :
           (a < RelAddr \/ a >= RelAddr + 4) => mem[a] = pre_mem[a]

\* a branch written over a word with every bit set: the opcode bits stay set
C17_Witness ==
  /\ A64Done("R_AARCH64_JUMP26")
  /\ OldWord = W(\hFFFF, \hFFFF)
  /\ NewWord # OldWord
  /\ Top6(NewWord) = 63

\* an ADRP and a load written over a word with every bit set
C17_WitnessAdrp ==
  /\ A64Done("R_AARCH64_ADR_PREL_PG_HI21")
  /\ OldWord = W(\hFFFF, \hFFFF)
  /\ NewWord # OldWord

C17_WitnessLo12 ==
  /\ A64Done("R_AARCH64_LDST32_ABS_LO12_NC")
  /\ OldWord = W(\hFFFF, \hFFFF)
  /\ NewWord # OldWord

----------------------------------------------------------------------------
(* C18 *)

\* C18: relocate of an unresolved AArch64 record returns False without
\* raising (value, which needs the binding, is not evaluated), logs nothing
\* and leaves the owner's memory byte for byte as it was.
C18_A64UnresolvedUntouched ==
  (rtype \in A64Classes /\ ~resolved /\ ret.op = "relocate")
    => (~ret.applied /\ ~ret.raised /\ log = <<>> /\ mem = pre_mem)

\* relocate has returned False on an unresolved record
C18_Witness ==
  /\ rtype = "R_AARCH64_LDST128_ABS_LO12_NC"
  /\ ~resolved
  /\ ret.op = "relocate"
  /\ ~ret.applied
  /\ mem = pre_mem

----------------------------------------------------------------------------
(* C19 *)

\* C19: the boolean relocate returns says whether the 4 bytes at the
\* location changed: True exactly when they differ from the bytes before the
\* call.
C19_A64ReturnsWhetherChanged ==
  (rtype \in A64Classes /\ ret.op = "relocate")
    => (ret.applied <=> load(mem, RelAddr) # load(pre_mem, RelAddr))

\* C19, amended: the boolean relocate returns says whether the record was
\* resolved and its word written: True for every resolved record, also when
\* the word written equals the word found, and False for an unresolved one.
C19_A64ReturnsWhetherWritten ==
  (rtype \in A64Classes /\ ret.op = "relocate")
    => (ret.applied <=> resolved)

\* a branch rewritten with the offset it already held: True is returned
C19_Witness ==
  /\ A64Done("R_AARCH64_JUMP26")
  /\ OldWord = W(\h17FF, \hFFFF)
  /\ load(mem, RelAddr) = load(pre_mem, RelAddr)
  /\ ret.applied

----------------------------------------------------------------------------
(* PE vocabulary *)

\* the blocks of the directory
Blocks == DIRECTORY_ENTRY_BASERELOC.blocks

\* the directory entry an iteration read (v.idx counts from 0)
EntryOf(v) == Blocks[v.block][v.idx + 1]

\* the iteration read a HIGHADJ entry
IsHighAdj(v) == EntryOf(v).type = IMAGE_REL_BASED_HIGHADJ

\* the HIGHADJ entry an iteration read is followed by an entry in its block
HasAdjustment(v) == v.idx + 2 <= Len(Blocks[v.block])

\* the last iteration of the while loop, and the last record of the list
LastVisit == visited[Len(visited)]

LastReloc == relocs[Len(relocs)]

----------------------------------------------------------------------------
(* C11 *)

\* C11: the record built for a HIGHADJ entry at index i that has an entry at
\* index i + 1 after it carries that entry's rva as next_rva.
C11_HighAdjTakesNextEntry ==
  (visited # <<>> /\ IsHighAdj(LastVisit) /\ HasAdjustment(LastVisit))
    => /\ LastVisit.made
       /\ LastReloc.cls = "IMAGE_REL_BASED_HIGHADJ"
       /\ LastReloc.addr = EntryOf(LastVisit).rva
       /\ LastReloc.next_rva = Blocks[LastVisit.block][LastVisit.idx + 2].rva

----------------------------------------------------------------------------
(* C12 *)

\* records appended by the iterations so far
MadeCount == Cardinality({ k \in 1..Len(visited) : visited[k].made })

\* records the list held before the directory was registered
ImportCount == IF relocs # <<>> /\ relocs[1] = ImportReloc THEN 1 ELSE 0

\* C12: after an iteration on a HIGHADJ entry at index i the cursor is i + 2:
\* the next iteration on the block reads index i + 2, no iteration ever reads
\* index i + 1, and records come from iterations only, one at most from each.
C12_HighAdjConsumesTwo ==
  /\ Len(relocs) = ImportCount + MadeCount
  /\ \A k \in 1..Len(visited) :
       IsHighAdj(visited[k]) =>
         /\ \A j \in 1..Len(visited) :
              visited[j].block = visited[k].block
                => visited[j].idx # visited[k].idx + 1
         /\ (k < Len(visited) /\ visited[k + 1].block = visited[k].block)
              => visited[k + 1].idx = visited[k].idx + 2
         /\ (k = Len(visited) /\ pc = "while" /\ base_reloc = visited[k].block)
              => entry_idx = visited[k].idx + 2

\* a block whose second entry is a HIGHADJ followed by two more entries: the
\* loop went from index 1 to index 3 and the walk has ended
C12_Witness ==
  /\ pc = "done"
  /\ \E k \in 1..(Len(visited) - 1) :
       /\ IsHighAdj(visited[k])
       /\ visited[k].idx = 1
       /\ visited[k + 1].block = visited[k].block
       /\ visited[k + 1].idx = 3
       /\ Len(Blocks[visited[k].block]) = 4

----------------------------------------------------------------------------
(* C13 *)

\* C13: an iteration on a HIGHADJ entry that is the last of its block logs
\* the corrupt-table warning and appends no record.
C13_TruncatedHighAdjWarns ==
  \A k \in 1..Len(visited) :
    (IsHighAdj(visited[k]) /\ ~HasAdjustment(visited[k]))
      => /\ visited[k].log = <<"PE contains corrupt base relocation table">>
         /\ ~visited[k].made

----------------------------------------------------------------------------
(* C20 *)

\* C20: an iteration on an entry of type 0 appends the absolute placeholder
\* for the entry's rva, on every architecture, logs nothing, in particular
\* no failed lookup, and the image is as it was.
C20_AbsoluteAccepted ==
  /\ pc # "none" => mem = InitMem(Zero)
  /\ (visited # <<>> /\ EntryOf(LastVisit).type = 0)
       => /\ LastVisit.made
          /\ LastVisit.log = <<>>
          /\ LastReloc = Reloc("IMAGE_REL_BASED_ABSOLUTE", EntryOf(LastVisit).rva, None)

\* a type 0 entry registered for the architecture without a table, after an
\* entry that architecture has no class for
C20_Witness ==
  /\ arch = "PPC32"
  /\ Len(visited) >= 2
  /\ EntryOf(LastVisit).type = 0
  /\ ~visited[Len(visited) - 1].made
  /\ LastReloc.cls = "IMAGE_REL_BASED_ABSOLUTE"

----------------------------------------------------------------------------
(* C21 *)

\* the bytes R_ARM_THM_CALL works on: the cached ones
ThmCallBytes == IF _insn_bytes = <<>> THEN load(pre_mem, RelAddr) ELSE _insn_bytes

\* what type 10 (R_ARM_THM_CALL) computes for the record's inputs
ThmCallOutcome ==
  R_ARM_THM_CALL_value(P, S, is_function, is_rela,
                       IF is_rela THEN _addend.v ELSE Zero, ThmCallBytes)

\* C21: the classes the table gives for types 30, 51 and 52 return the word
\* type 10 returns and raise when it raises, and the classes it gives for
\* types 1 and 29 return the word type 28 returns, for the same instruction,
\* S, A and P.
C21_AliasesComputeAsCall ==
  /\ \A t \in { 30, 51, 52 } :
       Done(relocation_table_arm[t]) =>
         (ret.raised = ThmCallOutcome.err /\ ret.val = ThmCallOutcome.val)
  /\ \A t \in { 1, 29 } :
       Done(relocation_table_arm[t]) =>
         (~ret.raised /\ ret.val = R_ARM_CALL_value(P, _addend.v, S, is_function))

\* a type 30 record has returned a patched Thumb branch
C21_Witness ==
  /\ Done(relocation_table_arm[30])
  /\ rtype = "R_ARM_THM_JUMP24"
  /\ ~ret.raised
  /\ ret.val # Zero
  /\ ret.val # unpack_word(pre_mem, RelAddr)

\* a type 51 record has raised the range error, a type 1 record has returned
C21_WitnessRaised ==
  /\ Done(relocation_table_arm[51])
  /\ ret.raised

C21_WitnessPc24 ==
  /\ Done(relocation_table_arm[1])
  /\ rtype = "R_ARM_PC24"
  /\ ret.val = W(\hEB00, \h0400)

----------------------------------------------------------------------------
(* C22 *)

\* the two half-words of the instruction held in 4 bytes, the first one
\* high, each little-endian
HalfWords(b) == [hi |-> b[1] + 256 * b[2], lo |-> b[3] + 256 * b[4]]

\* bits 31:27, bits 15:14 and bit 12 of the de-interleaved instruction
Unowned(b) ==
  LET h == HalfWords(b)
  IN <<h.hi \div 2048, h.lo \div 16384, (h.lo \div 4096) % 2>>

\* the branch offset of a Thumb-2 BL/BLX held in 4 bytes, as the
\* architecture reads it: SignExtend(S:I1:I2:imm10:imm11:0) with
\* I1 = NOT(J1 XOR S), I2 = NOT(J2 XOR S)
BranchOffset(b) ==
  LET h == HalfWords(b)
      s == (h.hi \div 1024) % 2
      i1 == 1 - ((((h.lo \div 8192) % 2) + s) % 2)
      i2 == 1 - ((((h.lo \div 2048) % 2) + s) % 2)
      n == (i1 * 2^23) + (i2 * 2^22) + ((h.hi % 1024) * 4096) + ((h.lo % 2048) * 2)
             - (s * 2^24)
  IN W(n \div Base, n % Base)

\* C22: an R_ARM_THM_CALL with a delta in [-2^23, 2^23) returns a word whose
\* 4 little-endian bytes are the instruction's half-words, high one first,
\* each little-endian: read that way they keep bits 31:27, 15, 14 and 12 of
\* the instruction the record read and carry the delta as branch offset;
\* and when the delta is the offset the instruction already had, the 4 bytes
\* are the bytes read.
C22_ThmCallFrameAndLayout ==
  (Done("R_ARM_THM_CALL") /\ InWindow(ThmCallDelta, 23)) =>
    /\ ~ret.raised
    /\ Unowned(WordBytes(ret.val)) = Unowned(_insn_bytes)
    /\ BranchOffset(WordBytes(ret.val)) = ClearBit0(ThmCallDelta)
    /\ (ThmCallDelta = BranchOffset(_insn_bytes)) => WordBytes(ret.val) = _insn_bytes

\* a BL -4 relocated against a symbol at its own place: the offset already
\* present is encoded again and the 4 bytes written are the bytes read
C22_Witness ==
  /\ Done("R_ARM_THM_CALL")
  /\ ret.op = "relocate"
  /\ ret.applied
  /\ _insn_bytes = WordBytes(W(\hFFFE, \hF7FF))
  /\ ThmCallDelta = BranchOffset(_insn_bytes)
  /\ load(mem, RelAddr) = _insn_bytes

\* a BLX (bit 12 clear) given a new backward offset: bit 12 stays clear
C22_WitnessBlx ==
  /\ Done("R_ARM_THM_CALL")
  /\ ~ret.raised
  /\ _insn_bytes = WordBytes(W(\hE800, \hF000))
  /\ ThmCallDelta[1] < 0
  /\ Unowned(WordBytes(ret.val)) = <<30, 3, 0>>

\* a BL whose own offset 0xC00000 is outside the window, given an in-range
\* delta: the bytes change
C22_WitnessFarBranch ==
  /\ Done("R_ARM_THM_CALL")
  /\ ~ret.raised
  /\ _insn_bytes = WordBytes(W(\hD000, \hF000))
  /\ BranchOffset(_insn_bytes) = W(\h00C0, \h0000)
  /\ WordBytes(ret.val) # _insn_bytes

----------------------------------------------------------------------------
(* C23 *)

\* C23: R_ARM_ABS32 returns (S + A) | T and R_ARM_REL32 returns
\* ((S + A) | T) - P, as integers, also for a negative addend; T is OR-ed in
\* before P is subtracted, so that the result plus P is (S + A) | T whether
\* P is even or odd.
C23_DataFormulas ==
  /\ Done("R_ARM_ABS32") =>
       (~ret.raised /\ ret.val = OrBit0(Add(S, _addend.v), ThumbBit))
  /\ Done("R_ARM_REL32") =>
       /\ ~ret.raised
       /\ ret.val = Sub(OrBit0(Add(S, _addend.v), ThumbBit), P)
       /\ Add(ret.val, P)[2] % 2 = (IF ThumbBit = 1 THEN 1 ELSE Add(S, _addend.v)[2] % 2)

\* R_ARM_REL32 at the odd place 0x1001 with addend -4 and a Thumb function
\* at 0x2001: ((0x2001 - 4) | 1) - 0x1001 = 0xFFC, an even result
C23_Witness ==
  /\ Done("R_ARM_REL32")
  /\ P = W(\h0000, \h1001)
  /\ _addend.v = W(-1, \hFFFC)
  /\ S = W(\h0000, \h2001)
  /\ is_function
  /\ ret.val = W(\h0000, \h0FFC)

\* R_ARM_ABS32 with addend -4 and a Thumb function at 0x2001: 0x1FFD
C23_WitnessAbs ==
  /\ Done("R_ARM_ABS32")
  /\ _addend.v = W(-1, \hFFFC)
  /\ S = W(\h0000, \h2001)
  /\ is_function
  /\ ret.val = W(\h0000, \h1FFD)

----------------------------------------------------------------------------
(* C24 *)

\* the number of entries of each block, and of the blocks after block b
BlockLens == [b \in 1..Len(Blocks) |-> Len(Blocks[b])]

EntriesAfter(b) == SumTo(BlockLens, Len(Blocks)) - SumTo(BlockLens, b)

\* an upper bound of the steps __register_relocs still takes: the entries
\* not yet passed by the cursor, the blocks not yet entered, and the return
Remaining ==
  CASE pc = "start" -> EntriesAfter(0) + Len(Blocks) + 2
    [] pc = "for" -> EntriesAfter(base_reloc) + (Len(Blocks) - base_reloc) + 1
    [] pc = "while" ->
         (IF entry_idx < Len(Blocks[base_reloc])
            THEN Len(Blocks[base_reloc]) - entry_idx ELSE 0)
           + EntriesAfter(base_reloc) + (Len(Blocks) - base_reloc) + 1
    [] OTHER -> 0

\* iteration j read an entry that comes before the one iteration k read
Before(j, k) ==
  \/ visited[j].block < visited[k].block
  \/ visited[j].block = visited[k].block /\ visited[j].idx < visited[k].idx

\* the iterations that made a record, in the order they ran
MadeVisits == SelectSeq(visited, LAMBDA v : v.made)

\* the entry's type is none of the two handled for every architecture and
\* the architecture has no class for it
NoHandler(v) ==
  /\ EntryOf(v).type \notin { 0, IMAGE_REL_BASED_HIGHADJ }
  /\ ~(arch = "AMD64" /\ EntryOf(v).type \in { 1, 2, 3, 10 })

\* entry i (from 0) of block b was read by an iteration, or passed as the
\* second entry of a HIGHADJ
Walked(b, i) ==
  \E k \in 1..Len(visited) :
    /\ visited[k].block = b
    /\ \/ visited[k].idx = i
       \/ visited[k].idx = i - 1 /\ IsHighAdj(visited[k])

C24_State ==
  /\ Remaining >= 0
  /\ pc # "done" => ENABLED NextPE
  /\ \A j, k \in 1..Len(visited) : j < k => Before(j, k)
  /\ Len(relocs) = ImportCount + Len(MadeVisits)
  /\ \A k \in 1..Len(MadeVisits) :
       relocs[ImportCount + k].addr = EntryOf(MadeVisits[k]).rva
  /\ \A k \in 1..Len(visited) : NoHandler(visited[k]) => ~visited[k].made
  /\ pc = "done" =>
       \A b \in 1..Len(Blocks) : \A i \in 0..(Len(Blocks[b]) - 1) : Walked(b, i)

C24_Step ==
  /\ Remaining' < Remaining
  /\ (pc = "while" /\ pc' = "while" /\ base_reloc' = base_reloc)
       => entry_idx' > entry_idx
  /\ Len(relocs') <= Len(relocs) + 1
  /\ SubSeq(relocs', 1, Len(relocs)) = relocs

\* C24: __register_relocs terminates on every directory: each step lowers a
\* bound that is never negative and a step exists until the return; the
\* cursor grows on every iteration; an iteration appends one record at most,
\* at the end of the list, so that the records follow the directory's
\* order; an entry without a class for the architecture leaves no record,
\* and at the return every entry of every block has been walked.
C24_RegisterRelocsTerminates == [](C24_State) /\ [][C24_Step]_vars

\* the walk has returned after an entry without a class was followed, in
\* its block, by an entry that made a record, and a second block was walked
C24_Witness ==
  /\ pc = "done"
  /\ Len(Blocks) = 2
  /\ \E k \in 1..(Len(visited) - 1) :
       /\ NoHandler(visited[k])
       /\ ~visited[k].made
       /\ visited[k + 1].block = visited[k].block
       /\ visited[k + 1].made
  /\ visited[Len(visited)].block = 2
  /\ Remaining = 0

----------------------------------------------------------------------------
(* C25 *)

\* the construction that has just been made
LastLoad == loads[Len(loads)]

\* the file paths of the constructions that were not of the main binary and
\* in which pefile accepted the file
NonMainLoaded ==
  { loads[k].binary : k \in { j \in 1..Len(loads) :
                               /\ loads[j].binary # None
                               /\ ~loads[j].is_main_bin
                               /\ ~loads[j].raised } }

\* what a construction does to the cache: nothing is removed or replaced, a
\* stream or the main binary adds nothing, and a cached path gets the
\* cached object without the directories being parsed again
C25_Step ==
  (Len(loads') = Len(loads) + 1) =>
    LET l == loads'[Len(loads')]
    IN /\ \A p \in DOMAIN _pefile_cache :
            p \in DOMAIN _pefile_cache' /\ _pefile_cache'[p] = _pefile_cache[p]
       /\ (l.binary = None \/ l.is_main_bin) => _pefile_cache' = _pefile_cache
       /\ (l.binary # None /\ l.binary \in DOMAIN _pefile_cache)
            => /\ _pe' = _pefile_cache[l.binary]
               /\ ~l.parsed
               /\ npefile' = npefile

\* C25: at every point of a process the keys of PE._pefile_cache are the
\* paths loaded as non-main binaries, and every construction leaves the
\* entries there are as they are, adds none for a stream or for the main
\* binary, and takes the cached object for a cached path without parsing
\* its directories again.
C25_CacheKeys == [](DOMAIN _pefile_cache = NonMainLoaded) /\ [][C25_Step]_vars

\* path 1 was loaded as the main binary (not cached), then as a library
\* (parsed again and cached), then as the main binary again (the cached
\* object is taken, nothing is parsed); a stream was loaded as well
C25_Witness ==
  /\ Len(loads) = 4
  /\ loads[1] = Load(1, TRUE, FALSE, TRUE)
  /\ loads[2] = Load(1, FALSE, FALSE, TRUE)
  /\ loads[3] = Load(None, FALSE, FALSE, TRUE)
  /\ loads[4] = Load(1, TRUE, FALSE, FALSE)
  /\ DOMAIN _pefile_cache = { 1 }
  /\ _pefile_cache[1] = 2
  /\ _pe = 2
  /\ npefile = 3

----------------------------------------------------------------------------
(* C26 *)

\* C26: once an R_ARM_THM_CALL has been evaluated, every further evaluation
\* (by value or by relocate) ends as the one before it did, with the same
\* word returned or the error raised again, and keeps the instruction bytes
\* the first evaluation loaded, whatever the image holds at the location by
\* then.
C26_ThmCallReusesBytes ==
  [][(rtype = "R_ARM_THM_CALL" /\ resolved /\ ret.op # "none")
       => /\ ret'.raised = ret.raised
          /\ ret'.val = ret.val
          /\ _insn_bytes' = _insn_bytes]_vars

\* the record has patched the location twice, with the same word, which is
\* not the instruction it read
C26_Witness ==
  /\ rtype = "R_ARM_THM_CALL"
  /\ nrelocs = 2
  /\ ret.op = "relocate"
  /\ ret.applied
  /\ load(pre_mem, RelAddr) = WordBytes(ret.val)
  /\ load(pre_mem, RelAddr) # _insn_bytes

\* the value was read after another writer replaced the word at the
\* location: the image holds neither the bytes the record loaded nor the
\* word it returns
C26_WitnessStored ==
  /\ rtype = "R_ARM_THM_CALL"
  /\ ret.op = "value"
  /\ ~ret.raised
  /\ pre_mem = mem
  /\ _insn_bytes = WordBytes(W(\hF800, \hF000))
  /\ load(mem, RelAddr) = WordBytes(W(\hFFFE, \hF7FF))
  /\ ret.val # unpack_word(mem, RelAddr)

=============================================================================
